---- MODULE Spec2Model ----
(***************************************************************************)
(* A model of the e2020 data viewer: the background catalog scan of        *)
(* src/components/picker.rs driven by the action loop of src/runner.rs and *)
(* src/components/app.rs, and the pivot view of src/components/viewer.rs.  *)
(*                                                                         *)
(* Four specifications share the variables: SpecScan (the interactive      *)
(* thread and the scan tasks; the viewer's fields stay as constructed) and *)
(* SpecView (the viewer's commands and its projection; the scan's state    *)
(* stays as constructed). SpecSelect drives the selection overlay of the   *)
(* viewer (src/components/select.rs) through its own operations, and       *)
(* SpecPick the catalog view of the picker with the scan behind it.        *)
(***************************************************************************)
EXTENDS Integers, Sequences, FiniteSets, TLC

VARIABLES
    \* ---- the HDF5 file, read by the scan (never written by the program)
    store,
    \* ---- Runner / App
    ui,                 \* where the interactive thread is in Runner::run
    action_rx,          \* the unbounded action channel
    inited,             \* tui::Event::Init has been delivered
    should_quit,        \* Runner.should_quit
    mode,               \* App.mode
    \* ---- Picker
    datasets,           \* Arc<Mutex<Vec<Data>>>
    loading_status,     \* Arc<AtomicBool>
    ndatasets,          \* Arc<AtomicUsize>
    task,               \* Option<JoinHandle>: 0 is None, t the t-th spawned task
    cancellation_token, \* Option<CancellationToken>: 0 is None
    tokens,             \* tokens[t]: the t-th token has been cancelled
    tasks,              \* tasks[t]: the t-th spawned scan task (its locals)
    picker,             \* state, filtered_items, input, mode, page_height
    \* ---- Viewer
    viewer,             \* the fields of struct Viewer
    items,              \* the grid the last draw got from Viewer::data
    select              \* Viewer.select: the fields of struct Select

scanVars == <<store, ui, action_rx, inited, should_quit, mode, datasets,
              loading_status, ndatasets, task, cancellation_token, tokens, tasks,
              picker>>

viewVars == <<viewer, items, select>>

vars == <<scanVars, viewVars>>

-----------------------------------------------------------------------------
(* Bounds of the model *)

MaxScans == 2       \* scans started in one behaviour
MaxPerGroup == 3    \* tables in the larger group of the file
MaxExtent == 2      \* extent of a dimension of a viewed table
MaxFilter == 1      \* words typed into the filter of the picker

-----------------------------------------------------------------------------
(* The file: root members in order; a member is a group of tables or not a *)
(* group; a table opens (Data::new returns Ok) unless it is in bad. Every   *)
(* table of the file has two dimensions of extent 2; the label table of    *)
(* the first dimension of a table in short holds one label only.           *)

Group(n) == [isGroup |-> TRUE, n |-> n]

NotAGroup == [isGroup |-> FALSE, n |-> 0]

Layouts == { <<Group(2), Group(MaxPerGroup)>>,
             <<Group(0), Group(1)>>,
             <<Group(1), NotAGroup>> }

TablesOf(members) ==
    { n \in (1..Len(members)) \X (1..MaxPerGroup) : n[2] <= members[n[1]].n }

Stores ==
    UNION { { [openable |-> TRUE, members |-> m, bad |-> b, short |-> {}] :
                b \in SUBSET TablesOf(m) } : m \in Layouts }
    \cup { [openable |-> TRUE, members |-> m, bad |-> {},
            short |-> {CHOOSE n \in TablesOf(m) :
                          \A k \in TablesOf(m) : n[1] >= k[1] /\ n[2] >= k[2]}] :
           m \in { l \in Layouts : \A g \in 1..Len(l) : l[g].isGroup } }
    \cup { [openable |-> FALSE, members |-> <<Group(1), Group(0)>>, bad |-> {},
            short |-> {}] }

RECURSIVE GroupNames(_, _)
GroupNames(members, g) ==
    \* picker.rs 222-226: for group in member_names, for dataset in the group's
    \* member_names: names.push("{group}/{dataset}")
    IF g > Len(members) THEN <<>>
    ELSE [k \in 1..members[g].n |-> <<g, k>>] \o GroupNames(members, g + 1)

Enumerable(s) ==
    \* picker.rs 221-223: File::open(..).unwrap(), f.group(..).unwrap()
    s.openable /\ \A g \in 1..Len(s.members) : s.members[g].isGroup

DataNew(s, name) ==
    \* data.rs 24-77: Ok(Data) or Err; the entry is named after the table
    IF name \in s.bad THEN <<>> ELSE <<name>>

DataOf(s, name) ==
    \* data.rs 43-76: shape is the dataset's shape reversed, set_data[i] is
    \* whatever the label table of dimension i holds
    [shape |-> <<2, 2>>,
     zero |-> FALSE,
     set_data |-> [i \in 1..2 |->
                     [j \in 1..(IF name \in s.short /\ i = 1 THEN 1 ELSE 2) |->
                         <<i - 1, j - 1>>]]]

-----------------------------------------------------------------------------
(* Picker: the scan *)

\* seen is history: the number of tables the task had indexed when its token
\* was cancelled (-1: not cancelled)
NoTask == [pc |-> "none", names |-> <<>>, i |-> 0, count |-> 0, seen |-> -1]

Live(t) == tasks[t].pc \notin {"none", "finished", "panicked"}

is_finished(t) == tasks[t].pc \in {"finished", "panicked"}

get_datasets ==
    \* picker.rs 208-248: a fresh token and a freshly spawned task
    LET t == task + 1 IN
    /\ cancellation_token' = t
    /\ task' = t
    /\ tasks' = [tasks EXCEPT ![t] = [NoTask EXCEPT !.pc = "spawned"]]
    /\ tokens' = [tokens EXCEPT ![t] = FALSE]

T_Drain_skipped(t) ==
    /\ tasks[t].pc = "spawned"
    /\ tasks' = [tasks EXCEPT ![t].pc = "drained"]
    /\ UNCHANGED <<viewVars, picker, store, ui, action_rx, inited, should_quit, mode, datasets,
                   loading_status, ndatasets, task, cancellation_token, tokens>>

T_Drain(t) ==
    \* picker.rs 218
    /\ tasks[t].pc = "spawned"
    /\ datasets' = <<>>
    /\ tasks' = [tasks EXCEPT ![t].pc = "drained"]
    /\ UNCHANGED <<viewVars, picker, store, ui, action_rx, inited, should_quit, mode,
                   loading_status, ndatasets, task, cancellation_token, tokens>>

T_Busy(t) ==
    \* picker.rs 219
    /\ tasks[t].pc = "drained"
    /\ loading_status' = TRUE
    /\ tasks' = [tasks EXCEPT ![t].pc = "busy"]
    /\ UNCHANGED <<viewVars, picker, store, ui, action_rx, inited, should_quit, mode,
                   datasets, ndatasets, task, cancellation_token, tokens>>

T_Enumerate(t) ==
    \* picker.rs 220-226; an unwrap that fails ends the task by a panic
    /\ tasks[t].pc = "busy"
    /\ tasks' = IF Enumerable(store)
                THEN [tasks EXCEPT ![t].pc = "enumerated",
                                   ![t].names = GroupNames(store.members, 1)]
                ELSE [tasks EXCEPT ![t].pc = "panicked"]
    /\ UNCHANGED <<viewVars, picker, store, ui, action_rx, inited, should_quit, mode, datasets,
                   loading_status, ndatasets, task, cancellation_token, tokens>>

T_StoreTotal_skipped(t) ==
    /\ tasks[t].pc = "enumerated"
    /\ tasks' = [tasks EXCEPT ![t].pc = "loop", ![t].i = 1, ![t].count = 0]
    /\ UNCHANGED <<viewVars, picker, store, ui, action_rx, inited, should_quit, mode, datasets,
                   loading_status, ndatasets, task, cancellation_token, tokens>>

T_StoreTotal(t) ==
    \* picker.rs 227-229: the total, count = 0, then the loop head
    /\ tasks[t].pc = "enumerated"
    /\ ndatasets' = Len(tasks[t].names)
    /\ tasks' = [tasks EXCEPT ![t].pc = "loop", ![t].i = 1, ![t].count = 0]
    /\ UNCHANGED <<viewVars, picker, store, ui, action_rx, inited, should_quit, mode, datasets,
                   loading_status, task, cancellation_token, tokens>>

T_Open(t) ==
    \* picker.rs 229-230: the next name, Data::new begins; or the loop is over
    /\ tasks[t].pc = "loop"
    /\ tasks' = IF tasks[t].i <= Len(tasks[t].names)
                THEN [tasks EXCEPT ![t].pc = "opening"]
                ELSE [tasks EXCEPT ![t].pc = "epilogue"]
    /\ UNCHANGED <<viewVars, picker, store, ui, action_rx, inited, should_quit, mode, datasets,
                   loading_status, ndatasets, task, cancellation_token, tokens>>

T_Push_stops_on_error(t) ==
    /\ tasks[t].pc = "opening"
    /\ LET d == DataNew(store, tasks[t].names[tasks[t].i]) IN
        /\ datasets' = datasets \o d
        /\ tasks' = [tasks EXCEPT ![t].pc = IF d = <<>> THEN "epilogue" ELSE "check",
                                  ![t].count = tasks[t].count + Len(d)]
    /\ UNCHANGED <<viewVars, picker, store, ui, action_rx, inited, should_quit, mode,
                   loading_status, ndatasets, task, cancellation_token, tokens>>

T_Push_prepends(t) ==
    /\ tasks[t].pc = "opening"
    /\ LET d == DataNew(store, tasks[t].names[tasks[t].i]) IN
        /\ datasets' = d \o datasets
        /\ tasks' = [tasks EXCEPT ![t].pc = "check",
                                  ![t].count = tasks[t].count + Len(d)]
    /\ UNCHANGED <<viewVars, picker, store, ui, action_rx, inited, should_quit, mode,
                   loading_status, ndatasets, task, cancellation_token, tokens>>

T_Push(t) ==
    \* picker.rs 230-233: Data::new has returned; Ok is pushed and counted
    /\ tasks[t].pc = "opening"
    /\ LET d == DataNew(store, tasks[t].names[tasks[t].i]) IN
        /\ datasets' = datasets \o d
        /\ tasks' = [tasks EXCEPT ![t].pc = "check",
                                  ![t].count = tasks[t].count + Len(d)]
    /\ UNCHANGED <<viewVars, picker, store, ui, action_rx, inited, should_quit, mode,
                   loading_status, ndatasets, task, cancellation_token, tokens>>

T_CheckCancel_ignores_token(t) ==
    /\ tasks[t].pc = "check"
    /\ tasks' = [tasks EXCEPT ![t].pc = "loop", ![t].i = tasks[t].i + 1]
    /\ UNCHANGED <<viewVars, picker, store, ui, action_rx, inited, should_quit, mode, datasets,
                   loading_status, ndatasets, task, cancellation_token, tokens>>

T_CheckCancel_every_other(t) ==
    /\ tasks[t].pc = "check"
    /\ tasks' = IF tokens[t] /\ tasks[t].i % 2 = 0
                THEN [tasks EXCEPT ![t].pc = "epilogue"]
                ELSE [tasks EXCEPT ![t].pc = "loop", ![t].i = tasks[t].i + 1]
    /\ UNCHANGED <<viewVars, picker, store, ui, action_rx, inited, should_quit, mode, datasets,
                   loading_status, ndatasets, task, cancellation_token, tokens>>

T_CheckCancel(t) ==
    \* picker.rs 234-236
    /\ tasks[t].pc = "check"
    /\ tasks' = IF tokens[t]
                THEN [tasks EXCEPT ![t].pc = "epilogue"]
                ELSE [tasks EXCEPT ![t].pc = "loop", ![t].i = tasks[t].i + 1]
    /\ UNCHANGED <<viewVars, picker, store, ui, action_rx, inited, should_quit, mode, datasets,
                   loading_status, ndatasets, task, cancellation_token, tokens>>

T_StoreCount_one_less(t) ==
    /\ tasks[t].pc = "epilogue"
    /\ ndatasets' = IF tasks[t].count = 0 THEN 0 ELSE tasks[t].count - 1
    /\ tasks' = [tasks EXCEPT ![t].pc = "send"]
    /\ UNCHANGED <<viewVars, picker, store, ui, action_rx, inited, should_quit, mode, datasets,
                   loading_status, task, cancellation_token, tokens>>

T_StoreCount(t) ==
    \* picker.rs 238
    /\ tasks[t].pc = "epilogue"
    /\ ndatasets' = tasks[t].count
    /\ tasks' = [tasks EXCEPT ![t].pc = "send"]
    /\ UNCHANGED <<viewVars, picker, store, ui, action_rx, inited, should_quit, mode, datasets,
                   loading_status, task, cancellation_token, tokens>>

T_Send(t) ==
    \* picker.rs 239-244: action_tx is Some once the runner has registered it
    /\ tasks[t].pc = "send"
    /\ action_rx' = action_rx \o <<"Tick", "MoveSelectionNext">>
    /\ tasks' = [tasks EXCEPT ![t].pc = "clear"]
    /\ UNCHANGED <<viewVars, picker, store, ui, inited, should_quit, mode, datasets,
                   loading_status, ndatasets, task, cancellation_token, tokens>>

T_Clear(t) ==
    \* picker.rs 245
    /\ tasks[t].pc = "clear"
    /\ loading_status' = FALSE
    /\ tasks' = [tasks EXCEPT ![t].pc = "return"]
    /\ UNCHANGED <<viewVars, picker, store, ui, action_rx, inited, should_quit, mode, datasets,
                   ndatasets, task, cancellation_token, tokens>>

T_Return(t) ==
    \* picker.rs 246-247: the future completes and its locals are dropped
    /\ tasks[t].pc = "return"
    /\ tasks' = [tasks EXCEPT ![t].pc = "finished", ![t].names = <<>>, ![t].i = 0]
    /\ UNCHANGED <<viewVars, picker, store, ui, action_rx, inited, should_quit, mode, datasets,
                   loading_status, ndatasets, task, cancellation_token, tokens>>

ScanStep(t) ==
    \/ T_Drain(t) \/ T_Busy(t) \/ T_Enumerate(t) \/ T_StoreTotal(t)
    \/ T_Open(t) \/ T_Push(t) \/ T_CheckCancel(t) \/ T_StoreCount(t)
    \/ T_Send(t) \/ T_Clear(t) \/ T_Return(t)

cancel_request ==
    \* picker.rs 251-252: t.cancel() on the current token, if any
    /\ tokens' = IF cancellation_token # 0
                 THEN [tokens EXCEPT ![cancellation_token] = TRUE]
                 ELSE tokens
    /\ tasks' = IF cancellation_token # 0 /\ ~tokens[cancellation_token]
                THEN [tasks EXCEPT ![cancellation_token].seen =
                                        tasks[cancellation_token].count]
                ELSE tasks

cancel_returns_without_join == TRUE

cancel_returns ==
    \* picker.rs 253-257: while !t.is_finished() { sleep }
    cancellation_token = 0 \/ task = 0 \/ is_finished(task)

-----------------------------------------------------------------------------
(* Picker: the cursor and the filter. state is TableState.selected (<<>>   *)
(* for None, <<i>> for Some(i)), filtered_items the rows the last tick()   *)
(* built (a row is known by the name in its first cell), input the words   *)
(* of the filter (a word is one digit; the name g/k contains the digits g  *)
(* and k), page_height the height the last draw stored.                    *)

\* picker.rs 31-53: #[derive(Default)]
DefaultPicker ==
    [state |-> <<>>, filtered_items |-> <<>>, input |-> <<>>,
     mode |-> "Normal", page_height |-> <<>>]

\* picker.rs 74-78: every word of the filter is contained in the name
Matches(name, words) ==
    \A k \in 1..Len(words) : words[k] \in {name[1], name[2]}

\* picker.rs 67-91
Picker_tick(p, ds) ==
    [p EXCEPT !.filtered_items =
        SelectSeq(ds, LAMBDA name : Matches(name, p.input))]

\* picker.rs 132-138
Picker_top(p) ==
    [p EXCEPT !.state = IF p.filtered_items = <<>> THEN <<>> ELSE <<0>>]

\* picker.rs 140-146
Picker_bottom(p) ==
    [p EXCEPT !.state = IF p.filtered_items = <<>> THEN <<>>
                        ELSE <<Len(p.filtered_items) - 1>>]

\* picker.rs 148-158: saturating_sub
Picker_page_up(p) ==
    [p EXCEPT !.state =
        IF p.filtered_items = <<>> THEN <<>>
        ELSE IF p.state # <<>> /\ p.page_height # <<>>
             THEN (IF p.state[1] < p.page_height[1] THEN <<0>>
                   ELSE <<p.state[1] - p.page_height[1]>>)
             ELSE <<0>>]

\* picker.rs 160-170
Picker_page_down(p) ==
    [p EXCEPT !.state =
        IF p.filtered_items = <<>> THEN <<>>
        ELSE IF p.state # <<>> /\ p.page_height # <<>>
             THEN (IF p.state[1] + p.page_height[1] < Len(p.filtered_items) - 1
                   THEN <<p.state[1] + p.page_height[1]>>
                   ELSE <<Len(p.filtered_items) - 1>>)
             ELSE <<Len(p.filtered_items) - 1>>]

\* picker.rs 172-188
Picker_next(p) ==
    [p EXCEPT !.state =
        IF p.filtered_items = <<>> THEN <<>>
        ELSE IF p.state = <<>> THEN <<0>>
        ELSE IF p.state[1] >= Len(p.filtered_items) - 1 THEN <<0>>
        ELSE <<p.state[1] + 1>>]

\* picker.rs 190-206
Picker_previous(p) ==
    [p EXCEPT !.state =
        IF p.filtered_items = <<>> THEN <<>>
        ELSE IF p.state = <<>> THEN <<0>>
        ELSE IF p.state[1] = 0 THEN <<Len(p.filtered_items) - 1>>
        ELSE <<p.state[1] - 1>>]

\* picker.rs 265-293
Picker_refresh(p, ds) ==
    [p EXCEPT !.state = IF Len(ds) > 0
                        THEN (IF p.state = <<>> THEN <<0>> ELSE p.state)
                        ELSE <<>>]

\* picker.rs 297, 308-309: items[selection] is out of bounds, or no entry of
\* the collection has the name of the row (unwrap of the Err)
select_panics(p, selection, ds) ==
    \/ selection >= Len(p.filtered_items)
    \/ \A k \in 1..Len(ds) : ds[k] # p.filtered_items[selection + 1]

\* picker.rs 295-312: the position in the collection of the first entry that
\* has the name of the selected row
Picker_select(p, selection, ds) ==
    (CHOOSE k \in 1..Len(ds) :
        /\ ds[k] = p.filtered_items[selection + 1]
        /\ \A m \in 1..(k - 1) : ds[m] # p.filtered_items[selection + 1]) - 1

-----------------------------------------------------------------------------
(* Runner::run: one event is awaited, its action is sent, and the channel  *)
(* is drained (each action goes to App::update, which passes it on to the  *)
(* component of the current mode) before the next event is awaited.        *)

Event(a) ==
    \* runner.rs 63-78
    /\ ui = "await"
    /\ action_rx' = Append(action_rx, a)
    /\ ui' = "drain"

EvInit ==
    \* runner.rs 65: the first event of the terminal
    /\ ~inited
    /\ inited' = TRUE
    /\ Event("Init")
    /\ UNCHANGED <<viewVars, picker, store, should_quit, mode, datasets, loading_status,
                   ndatasets, task, cancellation_token, tokens, tasks>>

EvTick ==
    \* runner.rs 67
    /\ inited
    /\ Event("Tick")
    /\ UNCHANGED <<viewVars, picker, store, inited, should_quit, mode, datasets, loading_status,
                   ndatasets, task, cancellation_token, tokens, tasks>>

EvKeyReload ==
    \* picker.rs 336: 'r'
    /\ inited /\ mode = "Picker" /\ picker.mode = "Normal"
    /\ task < MaxScans
    /\ Event("ReloadData")
    /\ UNCHANGED <<viewVars, picker, store, inited, should_quit, mode, datasets, loading_status,
                   ndatasets, task, cancellation_token, tokens, tasks>>

EvKeyQuit ==
    \* picker.rs 325, app.rs 107-114: 'q' or ctrl-c
    /\ inited
    /\ Event("Quit")
    /\ UNCHANGED <<viewVars, picker, store, inited, should_quit, mode, datasets, loading_status,
                   ndatasets, task, cancellation_token, tokens, tasks>>

Recv(a) ==
    \* runner.rs 80: try_recv
    /\ ui = "drain"
    /\ action_rx # <<>>
    /\ Head(action_rx) = a

DoInit ==
    \* app.rs 128, 79-95; picker.rs 56-65: get_datasets(), then refresh()
    /\ Recv("Init")
    /\ action_rx' = Tail(action_rx)
    /\ mode = "Picker"
    /\ get_datasets
    /\ picker' = Picker_refresh(picker, datasets)
    /\ UNCHANGED <<viewVars, store, ui, inited, should_quit, mode, datasets,
                   loading_status, ndatasets>>

DoTick ==
    \* app.rs 130, 177-186; picker.rs 393: in the picker, tick() reads the
    \* collection
    /\ Recv("Tick")
    /\ action_rx' = Tail(action_rx)
    /\ picker' = IF mode = "Picker" THEN Picker_tick(picker, datasets)
                 ELSE picker
    /\ UNCHANGED <<viewVars, store, ui, inited, should_quit, mode, datasets,
                   loading_status, ndatasets, task, cancellation_token,
                   tokens, tasks>>

DoMoveSelectionNext ==
    \* picker.rs 363: next() moves the picker's cursor
    /\ Recv("MoveSelectionNext")
    /\ mode = "Picker"
    /\ action_rx' = Tail(action_rx)
    /\ picker' = Picker_next(picker)
    /\ UNCHANGED <<viewVars, store, ui, inited, should_quit, mode, datasets,
                   loading_status, ndatasets, task, cancellation_token,
                   tokens, tasks>>

DoReloadData ==
    \* picker.rs 369-370: self.cancel() is entered
    /\ Recv("ReloadData")
    /\ mode = "Picker"
    /\ action_rx' = Tail(action_rx)
    /\ cancel_request
    /\ ui' = "reload_cancel"
    /\ UNCHANGED <<viewVars, picker, store, inited, should_quit, mode, datasets,
                   loading_status, ndatasets, task, cancellation_token>>

ReloadJoined_without_wait ==
    /\ ui = "reload_cancel"
    /\ get_datasets
    /\ ui' = "drain"
    /\ UNCHANGED <<viewVars, picker, store, action_rx, inited, should_quit, mode, datasets,
                   loading_status, ndatasets>>

ReloadJoined ==
    \* picker.rs 370-371: self.cancel() returns, self.get_datasets()
    /\ ui = "reload_cancel"
    /\ cancel_returns
    /\ get_datasets
    /\ ui' = "drain"
    /\ UNCHANGED <<viewVars, picker, store, action_rx, inited, should_quit, mode, datasets,
                   loading_status, ndatasets>>

DoQuit ==
    \* runner.rs 85; app.rs 129, 69-71: self.picker.cancel() is entered
    /\ Recv("Quit")
    /\ action_rx' = Tail(action_rx)
    /\ should_quit' = TRUE
    /\ cancel_request
    /\ ui' = "quit_cancel"
    /\ UNCHANGED <<viewVars, picker, store, inited, mode, datasets, loading_status, ndatasets,
                   task, cancellation_token>>

QuitJoined ==
    \* app.rs 70: cancel() returns; picker.rs 358-362: abort() of a task that
    \* has finished does nothing
    /\ ui = "quit_cancel"
    /\ cancel_returns
    /\ ui' = "drain"
    /\ UNCHANGED <<viewVars, picker, store, action_rx, inited, should_quit, mode, datasets,
                   loading_status, ndatasets, task, cancellation_token,
                   tokens, tasks>>

DrainDone ==
    \* runner.rs 80, 103-113: the channel is empty; quit or await the next event
    /\ ui = "drain"
    /\ action_rx = <<>>
    /\ ui' = IF should_quit THEN "stopped" ELSE "await"
    /\ UNCHANGED <<viewVars, picker, store, action_rx, inited, should_quit, mode, datasets,
                   loading_status, ndatasets, task, cancellation_token,
                   tokens, tasks>>

\* viewer.rs 19-38: #[derive(Default)]; None is <<>>, Some(x) is <<x>>
DefaultViewer ==
    [data |-> <<>>, ncol |-> 0, nrow |-> 0, state |-> <<>>, axis0 |-> 0,
     axis1 |-> 0, col |-> 0, row |-> 0, active_index |-> <<>>,
     show_zeros_as_dashes |-> FALSE]

\* select.rs 137-142: #[derive(Default)]
DefaultSelect ==
    [active_sets_state |-> <<>>, set_names |-> <<>>, current_set |-> 0]

InitScan ==
    /\ viewer = DefaultViewer
    /\ items = <<>>
    /\ select = DefaultSelect
    /\ picker = DefaultPicker
    /\ store \in Stores
    /\ ui = "await"
    /\ action_rx = <<>>
    /\ inited = FALSE
    /\ should_quit = FALSE
    /\ mode = "Picker"
    /\ datasets = <<>>
    /\ loading_status = FALSE
    /\ ndatasets = 0
    /\ task = 0
    /\ cancellation_token = 0
    /\ tokens = [t \in 1..MaxScans |-> FALSE]
    /\ tasks = [t \in 1..MaxScans |-> NoTask]

Task == \E t \in 1..MaxScans : ScanStep(t)

NextScan ==
    \/ EvInit \/ EvTick \/ EvKeyReload \/ EvKeyQuit
    \/ DoInit \/ DoTick \/ DoMoveSelectionNext
    \/ DoReloadData \/ ReloadJoined \/ DoQuit \/ QuitJoined
    \/ DrainDone
    \/ Task

SpecScan == InitScan /\ [][NextScan]_vars

\* The runtime runs a spawned task on a worker thread while the interactive
\* thread sleeps in cancel(): every step of a live task is eventually taken,
\* and the poll loop of cancel() sees a finished task.
Joined == ReloadJoined \/ QuitJoined

FairScan == SpecScan /\ WF_vars(Task) /\ WF_vars(Joined)

-----------------------------------------------------------------------------
(* Data: a table. shape is Data.shape (the dataset's extents reversed,     *)
(* data.rs 50-51), set_data[i] the labels of dimension i, and the values   *)
(* are numbers in halves (3 is 1.5). Axes and indices count from 0 as in   *)
(* the source; a sequence holds the entry of axis i at position i + 1.     *)

DimChoices == {1, 2, 3}

Shapes ==
    UNION { [1..n -> 1..MaxExtent] : n \in DimChoices }

Table(shape, zero) ==
    [shape |-> shape, zero |-> zero,
     set_data |-> [i \in 1..Len(shape) |->
                      [j \in 1..shape[i] |-> <<i - 1, j - 1>>]]]

\* the tables a view is opened on: every shape, with values that differ from
\* cell to cell, and one table of shape [2,3] whose values are all 0
Catalog ==
    { Table(sh, FALSE) : sh \in Shapes } \cup { Table(<<2, 3>>, TRUE) }

ndims(d) == Len(d.shape)

RECURSIVE SeqSum(_)
SeqSum(q) == IF q = <<>> THEN 0 ELSE Head(q) + SeqSum(Tail(q))

\* the value stored at an index vector (one index per axis)
Value(d, idx) ==
    IF d.zero THEN 0
    ELSE ((SeqSum([i \in 1..Len(idx) |-> (2 * i - 1) * idx[i]]) + Len(idx)) % 4) - 1

Full == [full |-> TRUE, index |-> 0]

Index(n) == [full |-> FALSE, index |-> n]

Transpose(a) ==
    \* ndarray: a.t()
    [j \in 1..Len(a[1]) |-> [i \in 1..Len(a) |-> a[i][j]]]

read_slice_2d(d, slices) ==
    \* hdf5: the selection in storage order (storage dimension k is axis
    \* ndims - k); Err unless it is in range and leaves two dimensions
    LET n    == Len(slices)
        free == { k \in 1..n : slices[k].full }
        ext(k) == d.shape[n - k + 1]
    IN  IF \/ Cardinality(free) # 2
           \/ \E k \in (1..n) \ free : slices[k].index >= ext(k)
        THEN [ok |-> FALSE, arr |-> <<>>]
        ELSE LET k1 == CHOOSE k \in free : \A m \in free : k <= m
                 k2 == CHOOSE k \in free : \A m \in free : k >= m
             IN  [ok |-> TRUE,
                  arr |-> [p \in 1..ext(k1) |-> [q \in 1..ext(k2) |->
                      Value(d, [i \in 1..n |->
                          LET k == n - i + 1
                          IN  IF k = k1 THEN p - 1
                              ELSE IF k = k2 THEN q - 1
                              ELSE slices[k].index])]]]

format_dash_integer_first(f) ==
    IF f % 2 = 0 THEN <<"int", f \div 2>>
    ELSE IF f = 0 THEN <<"-">>
    ELSE <<"fixed2", 50 * f>>

format_dash(f) ==
    \* viewer.rs 118-126 with show_zeros_as_dashes: "-", the integer, or {:.2}
    IF f = 0 THEN <<"-">>
    ELSE IF f % 2 = 0 THEN <<"int", f \div 2>>
    ELSE <<"fixed2", 50 * f>>

format_plain(f) ==
    \* viewer.rs 124 without show_zeros_as_dashes: {:.2}, in hundredths
    <<"fixed2", 50 * f>>

From(q, n) ==
    \* q[n..]
    SubSeq(q, n + 1, Len(q))

totals_0_of_first_row(a) == [j \in 1..Len(a[1]) |-> a[1][j]]

\* viewer.rs 90-108: the sums and the rows of the grid
totals_0(a) == [j \in 1..Len(a[1]) |-> SeqSum([i \in 1..Len(a) |-> a[i][j]])]

totals_1(a) == [i \in 1..Len(a) |-> SeqSum(a[i])]

total_row_unscrolled(a, col) ==
    <<SeqSum(totals_0(a))>> \o totals_1(a)

total_row_sum_of_shown(a, col) ==
    <<SeqSum(From(totals_1(a), col))>> \o From(totals_1(a), col)

total_row(a, col) ==
    \* viewer.rs 100-102
    <<SeqSum(totals_0(a))>> \o From(totals_1(a), col)

body_row_total_scrolled(a, i, col) ==
    From(<<totals_0(a)[i]>> \o Transpose(a)[i], col)

body_row(a, i, col) ==
    \* viewer.rs 104-106
    <<totals_0(a)[i]>> \o From(Transpose(a)[i], col)

vov(a, col) ==
    \* viewer.rs 97-108
    [i \in 1..(Len(a[1]) + 1) |->
        IF i = Len(a[1]) + 1 THEN total_row(a, col) ELSE body_row(a, i, col)]

slices_of(v) ==
    \* viewer.rs 68-79
    LET n == ndims(v.data[1])
    IN  [k \in 1..n |->
            LET i == n - k
            IN  IF i = v.axis0 \/ i = v.axis1 THEN Full
                ELSE Index(v.active_index[i + 1])]

oriented_as_read(v, arr) == arr

oriented(v, arr) ==
    \* viewer.rs 85-89
    IF v.axis1 > v.axis0 THEN Transpose(arr) ELSE arr

formatted(v, g) ==
    \* viewer.rs 115-128
    [i \in 1..Len(g) |-> [j \in 1..Len(g[i]) |->
        IF v.show_zeros_as_dashes THEN format_dash(g[i][j])
        ELSE format_plain(g[i][j])]]

\* Viewer::data: kind is "ok" (Ok(grid)), "err" (Err), "slice" (a slice start
\* out of range panics) or "assert" (the assertion of line 130 fails)
DataResult(kind, grid) == [kind |-> kind, grid |-> grid]

Viewer_data(v) ==
    \* viewer.rs 66-136
    IF v.data = <<>> THEN DataResult("ok", <<>>)
    ELSE LET r == read_slice_2d(v.data[1], slices_of(v))
         IN  IF ~r.ok THEN DataResult("err", <<>>)
             ELSE LET a == oriented(v, r.arr)
                  IN  IF v.col > Len(a) THEN DataResult("slice", <<>>)
                      ELSE LET s == formatted(v, vov(a, v.col))
                           IN  IF \A i \in 1..Len(s) : Len(s[i]) = Len(s[1])
                               THEN DataResult("ok", s)
                               ELSE DataResult("assert", <<>>)

columns(v) ==
    \* viewer.rs 144-158 without the corner header: "Total", then the labels
    <<"Total">> \o SubSeq(v.data[1].set_data[v.axis0 + 1], v.col + 1, v.ncol)

rows(v) ==
    \* viewer.rs 160-164
    From(v.data[1].set_data[v.axis1 + 1], v.row) \o <<"Total">>

initialize_state(v) ==
    \* viewer.rs 41-64
    LET d  == v.data[1]
        a0 == IF v.axis0 = v.axis1 THEN ndims(d) - 1 ELSE v.axis0
        a1 == IF v.axis0 = v.axis1 THEN 0 ELSE v.axis1
    IN  [v EXCEPT !.axis0 = a0,
                  !.axis1 = a1,
                  !.ncol = Len(d.set_data[a0 + 1]),
                  !.nrow = Len(d.set_data[a1 + 1]),
                  !.active_index = IF v.active_index = <<>>
                                   THEN [i \in 1..ndims(d) |-> 0]
                                   ELSE v.active_index]

Viewer_init(v, d) ==
    \* viewer.rs 345-356
    initialize_state([v EXCEPT !.show_zeros_as_dashes = TRUE,
                               !.data = <<d>>,
                               !.axis1 = 0,
                               !.axis0 = ndims(d) - 1])

reset(v) ==
    \* viewer.rs 138-142
    [v EXCEPT !.state = <<>>, !.active_index = <<>>]

move_top(v) ==
    \* viewer.rs 176-182
    [v EXCEPT !.state = IF v.nrow = 0 THEN <<>> ELSE <<0>>]

move_bottom(v) ==
    \* viewer.rs 184-190
    [v EXCEPT !.state = IF v.nrow = 0 THEN <<>> ELSE <<v.nrow + 1>>]

move_next(v) ==
    \* viewer.rs 192-208
    [v EXCEPT !.state =
        IF v.nrow = 0 THEN <<>>
        ELSE IF v.state = <<>> THEN <<0>>
        ELSE IF v.state[1] > v.nrow THEN <<0>>
        ELSE <<v.state[1] + 1>>]

move_previous(v) ==
    \* viewer.rs 210-226
    [v EXCEPT !.state =
        IF v.nrow = 0 THEN <<>>
        ELSE IF v.state = <<>> THEN <<0>>
        ELSE IF v.state[1] = 0 THEN <<v.nrow>>
        ELSE <<v.state[1] - 1>>]

Min(a, b) == IF a < b THEN a ELSE b

move_right(v) ==
    \* viewer.rs 228-231
    [v EXCEPT !.col = Min(v.col + 1, v.ncol)]

move_left(v) ==
    \* viewer.rs 233-235: saturating_sub
    [v EXCEPT !.col = IF v.col = 0 THEN 0 ELSE v.col - 1]

move_home(v) ==
    \* viewer.rs 237-239
    [v EXCEPT !.col = 0]

move_end(v) ==
    \* viewer.rs 241-243
    [v EXCEPT !.col = v.ncol]

step_up_single_step(a, other, n) ==
    IF a + 1 >= n THEN 0 ELSE a + 1

step_up(a, other, n) ==
    \* viewer.rs 248-260, 266-277: + 1, wrap, once more if it meets the other
    LET b == IF a + 1 >= n THEN 0 ELSE a + 1
    IN  IF b = other THEN (IF b + 1 >= n THEN 0 ELSE b + 1) ELSE b

step_down_once(a, other, n) ==
    IF a = 0 THEN n - 1 ELSE a - 1

step_down_no_wrap(a, other, n) ==
    LET b == IF a = 0 THEN 0 ELSE a - 1
    IN  IF b = other THEN (IF b = 0 THEN 0 ELSE b - 1) ELSE b

step_down(a, other, n) ==
    \* viewer.rs 282-295, 299-313
    LET b == IF a = 0 THEN n - 1 ELSE a - 1
    IN  IF b = other THEN (IF b = 0 THEN n - 1 ELSE b - 1) ELSE b

increment_axis0_resets_index(v) ==
    [v EXCEPT !.row = 0, !.col = 0,
              !.axis0 = step_up(v.axis0, v.axis1, Len(v.active_index)),
              !.active_index = [i \in 1..Len(v.active_index) |-> 0]]

increment_axis0(v) ==
    \* viewer.rs 245-261
    [v EXCEPT !.row = 0, !.col = 0,
              !.axis0 = step_up(v.axis0, v.axis1, Len(v.active_index))]

increment_axis1(v) ==
    \* viewer.rs 263-278
    [v EXCEPT !.row = 0, !.col = 0,
              !.axis1 = step_up(v.axis1, v.axis0, Len(v.active_index))]

decrement_axis0(v) ==
    \* viewer.rs 280-296
    [v EXCEPT !.axis0 = step_down(v.axis0, v.axis1, Len(v.active_index))]

decrement_axis1_single_step(v) ==
    [v EXCEPT !.axis1 = step_down_once(v.axis1, v.axis0, Len(v.active_index))]

decrement_axis1(v) ==
    \* viewer.rs 298-314
    [v EXCEPT !.axis1 = step_down(v.axis1, v.axis0, Len(v.active_index))]

increment_index_saturating(v, i) ==
    IF i >= Len(v.active_index) THEN v
    ELSE [v EXCEPT !.active_index[i + 1] =
            IF v.active_index[i + 1] + 1 >= Len(v.data[1].set_data[i + 1])
            THEN v.active_index[i + 1] ELSE v.active_index[i + 1] + 1]

increment_index_skips_free(v, i) ==
    IF i >= Len(v.active_index) \/ i \in {v.axis0, v.axis1} THEN v
    ELSE [v EXCEPT !.active_index[i + 1] =
            IF v.active_index[i + 1] + 1 >= Len(v.data[1].set_data[i + 1])
            THEN 0 ELSE v.active_index[i + 1] + 1]

increment_index(v, i) ==
    \* viewer.rs 316-327
    IF i >= Len(v.active_index) THEN v
    ELSE [v EXCEPT !.active_index[i + 1] =
            IF v.active_index[i + 1] + 1 >= Len(v.data[1].set_data[i + 1])
            THEN 0 ELSE v.active_index[i + 1] + 1]

decrement_index_last_axis(v, i) ==
    LET j == Min(i, Len(v.active_index) - 1)
    IN  [v EXCEPT !.active_index[j + 1] =
            IF v.active_index[j + 1] = 0
            THEN (IF Len(v.data[1].set_data[j + 1]) = 0 THEN 0
                  ELSE Len(v.data[1].set_data[j + 1]) - 1)
            ELSE v.active_index[j + 1] - 1]

decrement_index(v, i) ==
    \* viewer.rs 329-341
    IF i >= Len(v.active_index) THEN v
    ELSE [v EXCEPT !.active_index[i + 1] =
            IF v.active_index[i + 1] = 0
            THEN (IF Len(v.data[1].set_data[i + 1]) = 0 THEN 0
                  ELSE Len(v.data[1].set_data[i + 1]) - 1)
            ELSE v.active_index[i + 1] - 1]

-----------------------------------------------------------------------------
(* The selection overlay (src/components/select.rs). A StatefulList is a   *)
(* record: list_state is the cursor (<<>> for None, <<i>> for Some(i)),    *)
(* marked the set of marked indices, items the labels of one dimension.    *)
(* Select.current_set counts from 0 as in the source.                      *)

\* data.rs 44-49: the names of the dimensions, one per dimension
set_names(d) == [i \in 1..ndims(d) |-> i - 1]

\* select.rs 32-36
MS_mark(marked, index) ==
    IF index = <<>> THEN marked ELSE marked \cup {index[1]}

\* select.rs 38-42
MS_unmark(marked, index) ==
    IF index = <<>> THEN marked ELSE marked \ {index[1]}

\* select.rs 44-50: insert, and remove when the index was there already
MS_toggle(marked, index) ==
    IF index = <<>> THEN marked
    ELSE IF index[1] \in marked THEN marked \ {index[1]}
         ELSE marked \cup {index[1]}

\* select.rs 65-71
with_items(its) == [list_state |-> <<>>, marked |-> {}, items |-> its]

\* select.rs 87-90
SL_toggle(l) == [l EXCEPT !.marked = MS_toggle(l.marked, l.list_state)]

\* select.rs 93-95: the loop body for i = from, from + 1, .., below n
RECURSIVE ToggleFrom(_, _, _)
ToggleFrom(marked, from, n) ==
    IF from >= n THEN marked
    ELSE ToggleFrom(MS_toggle(marked, <<from>>), from + 1, n)

\* select.rs 99-101: the loop body for i = from, from + 1, .., below n
RECURSIVE MarkFrom(_, _, _)
MarkFrom(marked, from, n) ==
    IF from >= n THEN marked
    ELSE MarkFrom(MS_mark(marked, <<from>>), from + 1, n)

\* select.rs 98-102
SL_mark_all(l) == [l EXCEPT !.marked = MarkFrom(l.marked, 0, Len(l.items))]

SL_toggle_all_marks_all(l) == SL_mark_all(l)

\* select.rs 92-96
SL_toggle_all(l) == [l EXCEPT !.marked = ToggleFrom(l.marked, 0, Len(l.items))]

\* select.rs 104-106
SL_unmark_all(l) == [l EXCEPT !.marked = {}]

\* select.rs 83: Vec::sort of the collected indices
RECURSIVE Sorted(_)
Sorted(S) ==
    IF S = {} THEN <<>>
    ELSE LET m == CHOOSE x \in S : \A y \in S : x <= y
         IN  <<m>> \o Sorted(S \ {m})

SL_selected_without_default(l) == [list |-> l, out |-> Sorted(l.marked)]

\* select.rs 73-85: the list after the call and the vector returned
SL_selected(l) ==
    LET m == IF l.marked = {} THEN MS_mark(l.marked, <<0>>) ELSE l.marked
    IN  [list |-> [l EXCEPT !.marked = m], out |-> Sorted(m)]

\* select.rs 108-120
SL_next(l) ==
    [l EXCEPT !.list_state =
        IF l.list_state = <<>> THEN <<0>>
        ELSE IF l.list_state[1] >= Len(l.items) - 1 THEN <<0>>
             ELSE <<l.list_state[1] + 1>>]

\* select.rs 122-134
SL_previous(l) ==
    [l EXCEPT !.list_state =
        IF l.list_state = <<>> THEN <<0>>
        ELSE IF l.list_state[1] = 0 THEN <<Len(l.items) - 1>>
             ELSE <<l.list_state[1] - 1>>]

\* select.rs 158, 162, 181, 185: active_sets_state[current_set] is out of
\* bounds
index_panics(s) == s.current_set >= Len(s.active_sets_state)

\* select.rs 145-155
Select_init(s) ==
    [s EXCEPT !.active_sets_state =
        [k \in 1..Len(s.active_sets_state) |->
            SL_selected(SL_mark_all(
                [s.active_sets_state[k] EXCEPT !.list_state = <<0>>])).list]]

\* select.rs 157-159
Select_next_element(s) ==
    [s EXCEPT !.active_sets_state[s.current_set + 1] = SL_next(@)]

\* select.rs 161-163
Select_previous_element(s) ==
    [s EXCEPT !.active_sets_state[s.current_set + 1] = SL_previous(@)]

\* select.rs 165-170
Select_next_set(s) ==
    [s EXCEPT !.current_set =
        IF s.current_set + 1 >= Len(s.set_names) THEN 0 ELSE s.current_set + 1]

\* select.rs 172-178
Select_previous_set(s) ==
    [s EXCEPT !.current_set =
        IF s.current_set = 0 THEN Len(s.set_names) - 1 ELSE s.current_set - 1]

\* select.rs 180-182
Select_toggle(s) ==
    [s EXCEPT !.active_sets_state[s.current_set + 1] = SL_toggle(@)]

Select_toggle_all_every_set(s) ==
    [s EXCEPT !.active_sets_state =
        [k \in 1..Len(s.active_sets_state) |->
            SL_toggle_all(s.active_sets_state[k])]]

\* select.rs 184-186
Select_toggle_all(s) ==
    [s EXCEPT !.active_sets_state[s.current_set + 1] = SL_toggle_all(@)]

\* select.rs 188-195, called with data.set_data and data.set_names at
\* viewer.rs 61-62
Select_refresh(s, d) ==
    [s EXCEPT !.active_sets_state =
                  [k \in 1..Len(d.set_data) |-> with_items(d.set_data[k])],
              !.set_names = set_names(d)]

-----------------------------------------------------------------------------
(* The viewer's commands: Viewer::update handles one action and, but for   *)
(* Close, ends with initialize_state(). A draw keeps its grid in items; a  *)
(* command drops it.                                                       *)

Viewing == mode = "Viewer" /\ ui = "await"

Command(v) ==
    /\ Viewing
    /\ viewer' = initialize_state(v)
    /\ select' = Select_refresh(select, v.data[1])
    /\ items' = <<>>
    /\ UNCHANGED scanVars

Open(d) ==
    \* picker.rs 381-385, app.rs 136-140, viewer.rs 483-486: the table is
    \* opened, and the MoveSelectionNext the handler returns is handled
    /\ mode = "Picker" /\ ui = "await"
    /\ mode' = "Viewer"
    /\ viewer' = initialize_state(move_next(Viewer_init(viewer, d)))
    /\ select' = Select_refresh(select, d)
    /\ items' = <<>>
    /\ UNCHANGED <<picker, store, ui, action_rx, inited, should_quit, datasets,
                   loading_status, ndatasets, task, cancellation_token,
                   tokens, tasks>>

Close ==
    \* viewer.rs 556-559, app.rs 141-144
    /\ Viewing
    /\ viewer' = reset(viewer)
    /\ mode' = "Picker"
    /\ items' = <<>>
    /\ UNCHANGED <<picker, select, store, ui, action_rx, inited, should_quit, datasets,
                   loading_status, ndatasets, task, cancellation_token,
                   tokens, tasks>>

ToggleFormattedData ==
    \* viewer.rs 487-490
    Command([viewer EXCEPT !.show_zeros_as_dashes = ~viewer.show_zeros_as_dashes])

MoveSelectionNext == Command(move_next(viewer))          \* viewer.rs 491-494

MoveSelectionPrevious == Command(move_previous(viewer))  \* viewer.rs 495-498

MoveSelectionLeft == Command(move_left(viewer))          \* viewer.rs 499-502

MoveSelectionRight == Command(move_right(viewer))        \* viewer.rs 503-506

MoveSelectionTop == Command(move_top(viewer))            \* viewer.rs 507-510

MoveSelectionBottom == Command(move_bottom(viewer))      \* viewer.rs 511-514

MoveSelectionHome == Command(move_home(viewer))          \* viewer.rs 515-518

MoveSelectionEnd == Command(move_end(viewer))            \* viewer.rs 519-522

\* viewer.rs 364-435: the keys F1..F9 and 1..9 name the axes 0..8
AxisKeys == 0..8

NextAxis(i) == Command(increment_index(viewer, i))       \* viewer.rs 523-526

PreviousAxis(i) == Command(decrement_index(viewer, i))   \* viewer.rs 527-530

IncrementAxis(i) ==
    \* viewer.rs 531-540
    Command(IF i = 1 THEN increment_axis0(viewer) ELSE increment_axis1(viewer))

DecrementAxis(i) ==
    \* viewer.rs 541-550
    Command(IF i = 1 THEN decrement_axis0(viewer) ELSE decrement_axis1(viewer))

draw_panics(v, r) ==
    \* viewer.rs 583 (unwrap), 586 (columns), 588 (rows), 610 (rows[i])
    \/ r.kind # "ok"
    \/ v.col > v.ncol
    \/ v.ncol > Len(v.data[1].set_data[v.axis0 + 1])
    \/ v.row > Len(v.data[1].set_data[v.axis1 + 1])
    \/ Len(r.grid) > Len(rows(v))

Draw ==
    \* viewer.rs 570-654
    /\ Viewing
    /\ LET r == Viewer_data(viewer)
       IN  IF draw_panics(viewer, r)
           THEN ui' = "panicked" /\ items' = <<>>
           ELSE ui' = ui /\ items' = r.grid
    /\ UNCHANGED <<picker, viewer, select, store, action_rx, inited, should_quit, mode,
                   datasets, loading_status, ndatasets, task,
                   cancellation_token, tokens, tasks>>

InitView ==
    /\ viewer = DefaultViewer
    /\ items = <<>>
    /\ select = DefaultSelect
    /\ picker = DefaultPicker
    /\ store = [openable |-> TRUE, members |-> <<Group(1)>>, bad |-> {},
                short |-> {}]
    /\ ui = "await"
    /\ action_rx = <<>>
    /\ inited = TRUE
    /\ should_quit = FALSE
    /\ mode = "Picker"
    /\ datasets = <<>>
    /\ loading_status = FALSE
    /\ ndatasets = 0
    /\ task = 0
    /\ cancellation_token = 0
    /\ tokens = [t \in 1..MaxScans |-> FALSE]
    /\ tasks = [t \in 1..MaxScans |-> NoTask]

OpenTable == \E d \in Catalog : Open(d)

CycleIndex == \E i \in AxisKeys : NextAxis(i) \/ PreviousAxis(i)

CycleAxis == \E i \in {0, 1} : IncrementAxis(i) \/ DecrementAxis(i)

NextView ==
    \/ OpenTable \/ Close \/ Draw
    \/ ToggleFormattedData
    \/ MoveSelectionNext \/ MoveSelectionPrevious
    \/ MoveSelectionTop \/ MoveSelectionBottom
    \/ MoveSelectionLeft \/ MoveSelectionRight
    \/ MoveSelectionHome \/ MoveSelectionEnd
    \/ CycleIndex \/ CycleAxis

SpecView == InitView /\ [][NextView]_vars

-----------------------------------------------------------------------------
(* The overlay driven through its operations (SpecSelect): it holds the    *)
(* lists of a table as Select::refresh leaves them when the viewer opens   *)
(* the table (viewer.rs 61-62), and takes the commands of Select::update,  *)
(* a refresh for another table, and Select::init. An operation that        *)
(* indexes active_sets_state out of bounds panics.                         *)

SelectShapes == {<<4>>, <<2, 2>>, <<2, 1, 2>>}

SelectTables == { Table(sh, FALSE) : sh \in SelectShapes }

SelectStep(panics, s) ==
    /\ ui = "await"
    /\ IF panics
       THEN ui' = "panicked" /\ select' = select
       ELSE ui' = ui /\ select' = s
    /\ UNCHANGED <<picker, viewer, items, store, action_rx, inited, should_quit, mode,
                   datasets, loading_status, ndatasets, task,
                   cancellation_token, tokens, tasks>>

SelectRefresh ==                                 \* select.rs 188-195
    \E d \in SelectTables : SelectStep(FALSE, Select_refresh(select, d))

SelectInit == SelectStep(FALSE, Select_init(select))  \* select.rs 145-155

SelectNextElement ==                             \* select.rs 215
    SelectStep(index_panics(select), Select_next_element(select))

SelectPreviousElement ==                         \* select.rs 216
    SelectStep(index_panics(select), Select_previous_element(select))

SelectPreviousSet ==                             \* select.rs 217
    SelectStep(FALSE, Select_previous_set(select))

SelectNextSet ==                                 \* select.rs 218
    SelectStep(FALSE, Select_next_set(select))

SelectToggle ==                                  \* select.rs 219
    SelectStep(index_panics(select), Select_toggle(select))

SelectToggleAll ==                               \* select.rs 220
    SelectStep(index_panics(select), Select_toggle_all(select))

InitSelect ==
    /\ viewer = DefaultViewer
    /\ items = <<>>
    /\ select \in { Select_refresh(DefaultSelect, d) : d \in SelectTables }
    /\ picker = DefaultPicker
    /\ store = [openable |-> TRUE, members |-> <<Group(1)>>, bad |-> {},
                short |-> {}]
    /\ ui = "await"
    /\ action_rx = <<>>
    /\ inited = TRUE
    /\ should_quit = FALSE
    /\ mode = "Viewer"
    /\ datasets = <<>>
    /\ loading_status = FALSE
    /\ ndatasets = 0
    /\ task = 0
    /\ cancellation_token = 0
    /\ tokens = [t \in 1..MaxScans |-> FALSE]
    /\ tasks = [t \in 1..MaxScans |-> NoTask]

NextSelect ==
    \/ SelectRefresh \/ SelectInit
    \/ SelectNextElement \/ SelectPreviousElement
    \/ SelectPreviousSet \/ SelectNextSet
    \/ SelectToggle \/ SelectToggleAll

SpecSelect == InitSelect /\ [][NextSelect]_vars

-----------------------------------------------------------------------------
(* The catalog view (SpecPick): the scan and the action loop of SpecScan   *)
(* on one file of three tables, with the keys of the picker, the filter,   *)
(* the frames, and the selection of a table, up to its opening in the      *)
(* viewer.                                                                 *)

PickStore ==
    [openable |-> TRUE, members |-> <<Group(1), Group(2)>>, bad |-> {},
     short |-> {}]

\* the digits of the names of PickStore
FilterWords == {1, 2}

\* picker.rs 463: table_area.height.saturating_sub(4), for a terminal that
\* shows two rows of the table
PageHeight == 2

\* action.rs: Action::SwitchModeToViewer(usize)
SwitchModeToViewer(i) == "SwitchModeToViewer(" \o ToString(i) \o ")"

\* picker.rs 323-340: the keys of Mode::Normal that act on the cursor, the
\* filter and the selection
NormalKeys ==
    {"MoveSelectionNext", "MoveSelectionPrevious", "MoveSelectionTop",
     "MoveSelectionBottom", "MoveSelectionPageUp", "MoveSelectionPageDown",
     "SubmitSelection", "EnterInsert"}

EvKeyNormal ==
    \* picker.rs 322-342
    /\ inited /\ mode = "Picker" /\ picker.mode = "Normal"
    /\ \E a \in NormalKeys : Event(a)
    /\ UNCHANGED <<viewVars, picker, store, inited, should_quit, mode, datasets,
                   loading_status, ndatasets, task, cancellation_token,
                   tokens, tasks>>

EvKeyType ==
    \* picker.rs 343-350: a character goes into the input, then Refresh
    /\ inited /\ mode = "Picker" /\ picker.mode = "Editing"
    /\ Len(picker.input) < MaxFilter
    /\ \E w \in FilterWords : picker' = [picker EXCEPT !.input = Append(@, w)]
    /\ Event("Refresh")
    /\ UNCHANGED <<viewVars, store, inited, should_quit, mode, datasets,
                   loading_status, ndatasets, task, cancellation_token,
                   tokens, tasks>>

EvKeyBackspace ==
    \* picker.rs 346-349: Backspace takes the last character out of the input
    /\ inited /\ mode = "Picker" /\ picker.mode = "Editing"
    /\ picker.input # <<>>
    /\ picker' = [picker EXCEPT !.input = SubSeq(@, 1, Len(@) - 1)]
    /\ Event("Refresh")
    /\ UNCHANGED <<viewVars, store, inited, should_quit, mode, datasets,
                   loading_status, ndatasets, task, cancellation_token,
                   tokens, tasks>>

EvKeyEsc ==
    \* picker.rs 344-345: Esc or Enter while editing
    /\ inited /\ mode = "Picker" /\ picker.mode = "Editing"
    /\ Event("EnterNormal")
    /\ UNCHANGED <<viewVars, picker, store, inited, should_quit, mode, datasets,
                   loading_status, ndatasets, task, cancellation_token,
                   tokens, tasks>>

EvRender ==
    \* runner.rs 68
    /\ inited /\ mode = "Picker"
    /\ Event("Render")
    /\ UNCHANGED <<viewVars, picker, store, inited, should_quit, mode, datasets,
                   loading_status, ndatasets, task, cancellation_token,
                   tokens, tasks>>

\* picker.rs 357-396: an action of the picker that changes its fields and
\* sends the actions in sent
PickerDo(a, p, sent) ==
    /\ Recv(a)
    /\ mode = "Picker"
    /\ action_rx' = Tail(action_rx) \o sent
    /\ picker' = p
    /\ UNCHANGED <<viewVars, store, ui, inited, should_quit, mode, datasets,
                   loading_status, ndatasets, task, cancellation_token,
                   tokens, tasks>>

DoMoveSelectionPrevious ==                       \* picker.rs 364
    PickerDo("MoveSelectionPrevious", Picker_previous(picker), <<>>)

DoMoveSelectionTop ==                            \* picker.rs 365
    PickerDo("MoveSelectionTop", Picker_top(picker), <<>>)

DoMoveSelectionBottom ==                         \* picker.rs 366
    PickerDo("MoveSelectionBottom", Picker_bottom(picker), <<>>)

DoMoveSelectionPageUp ==                         \* picker.rs 367
    PickerDo("MoveSelectionPageUp", Picker_page_up(picker), <<>>)

DoMoveSelectionPageDown ==                       \* picker.rs 368
    PickerDo("MoveSelectionPageDown", Picker_page_down(picker), <<>>)

DoEnterInsert ==                                 \* picker.rs 373-376
    PickerDo("EnterInsert", [picker EXCEPT !.mode = "Editing"], <<"Refresh">>)

DoEnterNormal ==                                 \* picker.rs 377-380
    PickerDo("EnterNormal", [picker EXCEPT !.mode = "Normal"], <<"Refresh">>)

DoRefresh ==                                     \* picker.rs 387
    PickerDo("Refresh", Picker_refresh(picker, datasets), <<>>)

\* picker.rs 403-504: the draw stores the page height; render_stateful_widget
\* of the table either leaves a selection beyond the rows as it is or moves
\* it to the last row, as the version of the widget library has it
Picker_draw(p, clamps) ==
    [p EXCEPT !.page_height = <<PageHeight>>,
              !.state = IF clamps /\ p.state # <<>>
                            /\ p.state[1] >= Len(p.filtered_items)
                        THEN (IF p.filtered_items = <<>> THEN <<0>>
                              ELSE <<Len(p.filtered_items) - 1>>)
                        ELSE p.state]

DoRender ==
    \* runner.rs 89-95, app.rs 200-202
    \E clamps \in BOOLEAN : PickerDo("Render", Picker_draw(picker, clamps), <<>>)

DoSubmitSelection ==
    \* picker.rs 381-386
    /\ Recv("SubmitSelection")
    /\ mode = "Picker"
    /\ IF picker.state = <<>>
       THEN action_rx' = Tail(action_rx) /\ ui' = ui
       ELSE IF select_panics(picker, picker.state[1], datasets)
       THEN action_rx' = Tail(action_rx) /\ ui' = "panicked"
       ELSE /\ action_rx' = Append(Tail(action_rx),
                  SwitchModeToViewer(Picker_select(picker, picker.state[1],
                                                   datasets)))
            /\ ui' = ui
    /\ UNCHANGED <<viewVars, picker, store, inited, should_quit, mode, datasets,
                   loading_status, ndatasets, task, cancellation_token,
                   tokens, tasks>>

DoSwitchModeToViewer ==
    \* app.rs 136-140: datasets[i] is read; app.rs 179-183, viewer.rs 483-486:
    \* the viewer opens the table of that name and returns MoveSelectionNext
    /\ ui = "drain" /\ action_rx # <<>>
    /\ \E i \in 0..(Len(GroupNames(store.members, 1)) - 1) :
          /\ Head(action_rx) = SwitchModeToViewer(i)
          /\ IF i >= Len(datasets)
             THEN /\ ui' = "panicked"
                  /\ action_rx' = Tail(action_rx)
                  /\ UNCHANGED <<mode, viewer, select>>
             ELSE /\ ui' = ui
                  /\ mode' = "Viewer"
                  /\ viewer' = Viewer_init(viewer, DataOf(store, datasets[i + 1]))
                  /\ select' = Select_refresh(select, DataOf(store, datasets[i + 1]))
                  /\ action_rx' = Append(Tail(action_rx), "MoveSelectionNext")
    /\ items' = <<>>
    /\ UNCHANGED <<picker, store, inited, should_quit, datasets,
                   loading_status, ndatasets, task, cancellation_token,
                   tokens, tasks>>

ViewerMoveSelectionNext ==
    \* app.rs 179-183, viewer.rs 491-494
    /\ Recv("MoveSelectionNext")
    /\ mode = "Viewer"
    /\ action_rx' = Tail(action_rx)
    /\ viewer' = initialize_state(move_next(viewer))
    /\ select' = Select_refresh(select, viewer.data[1])
    /\ items' = <<>>
    /\ UNCHANGED <<picker, store, ui, inited, should_quit, mode, datasets,
                   loading_status, ndatasets, task, cancellation_token,
                   tokens, tasks>>

InitPick ==
    /\ viewer = DefaultViewer
    /\ items = <<>>
    /\ select = DefaultSelect
    /\ picker = DefaultPicker
    /\ store = PickStore
    /\ ui = "await"
    /\ action_rx = <<>>
    /\ inited = FALSE
    /\ should_quit = FALSE
    /\ mode = "Picker"
    /\ datasets = <<>>
    /\ loading_status = FALSE
    /\ ndatasets = 0
    /\ task = 0
    /\ cancellation_token = 0
    /\ tokens = [t \in 1..MaxScans |-> FALSE]
    /\ tasks = [t \in 1..MaxScans |-> NoTask]

NextPick ==
    \/ EvInit \/ EvTick \/ EvRender \/ EvKeyReload \/ EvKeyQuit
    \/ EvKeyNormal \/ EvKeyType \/ EvKeyBackspace \/ EvKeyEsc
    \/ DoInit \/ DoTick \/ DoRender \/ DoRefresh
    \/ DoMoveSelectionNext \/ DoMoveSelectionPrevious
    \/ DoMoveSelectionTop \/ DoMoveSelectionBottom
    \/ DoMoveSelectionPageUp \/ DoMoveSelectionPageDown
    \/ DoEnterInsert \/ DoEnterNormal
    \/ DoSubmitSelection \/ DoSwitchModeToViewer \/ ViewerMoveSelectionNext
    \/ DoReloadData \/ ReloadJoined \/ DoQuit \/ QuitJoined
    \/ DrainDone
    \/ Task

SpecPick == InitPick /\ [][NextPick]_vars

-----------------------------------------------------------------------------
(* Properties of the scan (SpecScan, FairScan) *)

\* the tables of the file whose open succeeds, in discovery order
Indexable ==
    SelectSeq(GroupNames(store.members, 1), LAMBDA n : n \notin store.bad)

InCancel == ui \in {"reload_cancel", "quit_cancel"}

\* C2: no two scan tasks are live at once, and while a scan is live every
\* scan started before it has been cancelled and has finished.
C2_OneScanAtATime ==
    \A t \in 1..MaxScans : Live(t) =>
        \A u \in 1..MaxScans : u # t =>
            /\ ~Live(u)
            /\ u < t => (tokens[u] /\ is_finished(u))

\* a second scan is running after the first was cancelled before its end
C2_Witness ==
    /\ task = 2 /\ tasks[2].pc = "opening"
    /\ tasks[1].pc = "finished" /\ tasks[1].count < Len(Indexable)

\* C3: a scan that ran to its end and was never cancelled leaves exactly the
\* tables that open, in discovery order; the count is their number and the
\* busy flag is clear.
C3_CompletedScan ==
    (task # 0 /\ tasks[task].pc = "finished" /\ tasks[task].seen = -1) =>
        /\ datasets = Indexable
        /\ ndatasets = Len(Indexable)
        /\ tasks[task].count = Len(Indexable)
        /\ ~loading_status

\* five tables, the third fails to open: four entries, count 4
C3_Witness ==
    /\ Len(GroupNames(store.members, 1)) = 5
    /\ store.bad = {GroupNames(store.members, 1)[3]}
    /\ task # 0 /\ tasks[task].pc = "finished" /\ tasks[task].seen = -1
    /\ Len(datasets) = 4 /\ ndatasets = 4

\* C4 as claimed: a scan cancelled when k tables were indexed ends with
\* exactly k entries.
C4_ExactlyK ==
    (task # 0 /\ tasks[task].pc = "finished" /\ tasks[task].seen >= 0) =>
        Len(datasets) = tasks[task].seen

\* C4 amended: it ends with those k entries and at most one more, the table
\* whose open was under way or next when the request was made; the entries
\* are in discovery order and the count is their number.
C4_KOrOneMore ==
    (task # 0 /\ tasks[task].pc = "finished" /\ tasks[task].seen >= 0) =>
        /\ Len(datasets) \in {tasks[task].seen, tasks[task].seen + 1}
        /\ Len(datasets) <= Len(Indexable)
        /\ datasets = SubSeq(Indexable, 1, Len(datasets))
        /\ ndatasets = Len(datasets)

\* cancelled with 2 of 5 indexed, ended with 3
C4_Witness ==
    /\ Len(Indexable) = 5
    /\ task # 0 /\ tasks[task].pc = "finished" /\ tasks[task].seen = 2
    /\ Len(datasets) = 3

\* what the latest scan has appended since its drain is all there is
C5_Drained ==
    (task # 0 /\ tasks[task].pc \notin {"none", "spawned"}) =>
        Len(datasets) = tasks[task].count

\* a step that changes the collection appends one entry, or is the drain at
\* the start of a scan, taken while no other scan is live and every earlier
\* one was cancelled and has finished
C5_Change ==
    datasets' # datasets =>
        \/ \E t \in 1..MaxScans :
              /\ tasks[t].pc = "opening" /\ tasks'[t].pc = "check"
              /\ Len(datasets') = Len(datasets) + 1
              /\ SubSeq(datasets', 1, Len(datasets)) = datasets
        \/ \E t \in 1..MaxScans :
              /\ tasks[t].pc = "spawned" /\ tasks'[t].pc = "drained"
              /\ datasets' = <<>>
              /\ \A u \in 1..MaxScans : u # t =>
                    /\ ~Live(u)
                    /\ u < t => (tokens[u] /\ is_finished(u))

\* C5: a scan empties the collection before it appends (from its drain on,
\* the collection holds what that scan appended and nothing else), and the
\* collection is emptied only by the drain at a scan's start: never by a
\* step that appends, and only while every earlier scan has been cancelled
\* and has finished.
C5_ClearedOnlyAtStart == [](C5_Drained) /\ [][C5_Change]_vars

\* the second scan has drained the entries the first one left
C5_Witness ==
    /\ task = 2 /\ tasks[2].pc = "drained" /\ datasets = <<>>
    /\ tasks[1].pc = "finished" /\ tasks[1].count > 0

\* C6 as claimed: when no scan task is live and one has ended, the busy flag
\* is clear.
C6_BusyCleared ==
    (task # 0 /\ \A t \in 1..MaxScans : ~Live(t)) => ~loading_status

\* outside cancel(), a task whose token was cancelled has finished
C7_Joined ==
    \A t \in 1..MaxScans : (tokens[t] /\ ~InCancel) => is_finished(t)

\* C7: cancel() returns only once the task has finished, so after it has
\* returned the cancelled scan takes no further step (it writes nothing);
\* and every call of cancel() returns.
C7_CancelJoins == [](C7_Joined) /\ (InCancel ~> ~InCancel)

\* cancel() has returned from a scan it cut short
C7_Witness ==
    /\ ui = "drain" /\ should_quit
    /\ task # 0 /\ tokens[task] /\ tasks[task].pc = "finished"
    /\ tasks[task].seen >= 0 /\ tasks[task].count < Len(Indexable)

-----------------------------------------------------------------------------
(* Properties of the pivot view (SpecView) *)

AxesValid(v) ==
    /\ v.axis0 # v.axis1
    /\ v.axis0 \in 0..(ndims(v.data[1]) - 1)
    /\ v.axis1 \in 0..(ndims(v.data[1]) - 1)

\* C1: while a table of two or more dimensions is viewed, the free axes are
\* distinct and in range, and so they are right after each of the four
\* axis-cycling operations.
C1_AxesDistinct ==
    (Viewing /\ ndims(viewer.data[1]) >= 2) =>
        /\ AxesValid(viewer)
        /\ AxesValid(increment_axis0(viewer))
        /\ AxesValid(increment_axis1(viewer))
        /\ AxesValid(decrement_axis0(viewer))
        /\ AxesValid(decrement_axis1(viewer))

\* a table of three dimensions with the axes cycled away from (2, 0), where
\* decrementing axis 0 meets axis 1
C1_Witness ==
    /\ Viewing /\ ndims(viewer.data[1]) = 3
    /\ viewer.axis0 = 0 /\ viewer.axis1 = 2

\* the projection of v gets as far as the grid
Projects(v) ==
    /\ v.data # <<>>
    /\ read_slice_2d(v.data[1], slices_of(v)).ok
    /\ v.col <= Len(oriented(v, read_slice_2d(v.data[1], slices_of(v)).arr))

\* the formatted grid of v, before the assertion of line 130
GridOf(v) ==
    formatted(v, vov(oriented(v, read_slice_2d(v.data[1], slices_of(v)).arr),
                     v.col))

\* C8: every row of the formatted grid is as long as the first one, and a
\* grid that was drawn has rows of one length.
C8_RowsEqual ==
    /\ (Viewing /\ Projects(viewer)) =>
          \A i \in 1..Len(GridOf(viewer)) :
              Len(GridOf(viewer)[i]) = Len(GridOf(viewer)[1])
    /\ \A i \in 1..Len(items) : Len(items[i]) = Len(items[1])

\* a drawn grid of a transposed slice, scrolled by one column, whose row and
\* column axes differ in extent
C8_Witness ==
    /\ Viewing /\ items # <<>>
    /\ viewer.axis1 > viewer.axis0
    /\ viewer.col = 1
    /\ viewer.ncol # viewer.nrow

\* the sum of the cells of the slice of v, cell by cell from the table
SliceSum(v) ==
    LET d == v.data[1]
    IN  SeqSum([p \in 1..d.shape[v.axis0 + 1] |->
            SeqSum([q \in 1..d.shape[v.axis1 + 1] |->
                Value(d, [i \in 1..ndims(d) |->
                    IF i - 1 = v.axis0 THEN p - 1
                    ELSE IF i - 1 = v.axis1 THEN q - 1
                    ELSE v.active_index[i]])])])

Swapped(v) == [v EXCEPT !.axis0 = v.axis1, !.axis1 = v.axis0, !.col = 0]

GrandTotal(v) == GridOf(v)[Len(GridOf(v))][1]

FormatOf(v, f) == IF v.show_zeros_as_dashes THEN format_dash(f) ELSE format_plain(f)

\* C9: the grand total cell is the sum of all cells of the slice, also with
\* the two free axes exchanged.
C9_GrandTotal ==
    (Viewing /\ Projects(viewer)) =>
        /\ GrandTotal(viewer) = FormatOf(viewer, SliceSum(viewer))
        /\ GrandTotal(Swapped(viewer)) = GrandTotal(viewer)

\* a slice of a table of three dimensions whose sum is not 0, scrolled
C9_Witness ==
    /\ Viewing /\ Projects(viewer)
    /\ ndims(viewer.data[1]) = 3
    /\ viewer.col = 1
    /\ SliceSum(viewer) # 0
    /\ viewer.active_index # <<0, 0, 0>>

\* the scenario: shape [2,3], all values 0, free axes (1, 0), fixed index
\* [0,0], no scroll, dashes on, and the grid drawn
C10_Scenario ==
    /\ Viewing /\ items # <<>>
    /\ viewer.data[1] = Table(<<2, 3>>, TRUE)
    /\ viewer.axis0 = 1 /\ viewer.axis1 = 0
    /\ viewer.active_index = <<0, 0>>
    /\ viewer.col = 0
    /\ viewer.show_zeros_as_dashes

\* C10 as claimed: a body of 3 rows by 2 columns (3 row totals, 2 column
\* totals), every cell "-".
C10_ThreeByTwo ==
    C10_Scenario =>
        /\ Len(items) = 3 + 1
        /\ \A i \in 1..Len(items) :
              /\ Len(items[i]) = 2 + 1
              /\ \A j \in 1..Len(items[i]) : items[i][j] = <<"-">>

\* C10 amended: a body of 2 rows (free axis 1, labels a, b) by 3 columns
\* (free axis 0, labels x, y, z), so 2 row totals and 3 column totals, every
\* cell 0 and rendered "-".
C10_TwoByThree ==
    C10_Scenario =>
        /\ Len(items) = 2 + 1
        /\ \A i \in 1..Len(items) :
              /\ Len(items[i]) = 3 + 1
              /\ \A j \in 1..Len(items[i]) : items[i][j] = <<"-">>
        /\ vov(oriented(viewer, read_slice_2d(viewer.data[1],
                                              slices_of(viewer)).arr), 0)
              = <<<<0, 0, 0, 0>>, <<0, 0, 0, 0>>, <<0, 0, 0, 0>>>>
        /\ Len(rows(viewer)) = Len(items)
        /\ Len(columns(viewer)) = Len(items[1])

C10_Witness == C10_Scenario /\ Len(items) = 3 /\ Len(items[1]) = 4

-----------------------------------------------------------------------------
(* Axis and index cycling (SpecView): the effect of one command on the     *)
(* viewer is the operation followed by initialize_state()                  *)

Up0(v) == initialize_state(increment_axis0(v))

Up1(v) == initialize_state(increment_axis1(v))

Down0(v) == initialize_state(decrement_axis0(v))

Down1(v) == initialize_state(decrement_axis1(v))

\* the first step of an increment of a, before the check against the other
FirstUp(a, n) == IF a + 1 >= n THEN 0 ELSE a + 1

\* the increment of slot 0 (slot 1) of v takes the double step
DoubleStep0(v) == FirstUp(v.axis0, Len(v.active_index)) = v.axis1

DoubleStep1(v) == FirstUp(v.axis1, Len(v.active_index)) = v.axis0

\* C11: an increment of a slot that takes no double step, followed by a
\* decrement of the same slot, leaves the slot at its original value.
C11_RoundTrip ==
    Viewing =>
        /\ ~DoubleStep0(viewer) => Down0(Up0(viewer)).axis0 = viewer.axis0
        /\ ~DoubleStep1(viewer) => Down1(Up1(viewer)).axis1 = viewer.axis1

\* three dimensions, slot 0 at the last axis: its increment wraps to 0
\* without meeting slot 1
C11_Witness ==
    /\ Viewing /\ ndims(viewer.data[1]) = 3
    /\ viewer.axis0 = 2 /\ viewer.axis1 = 1
    /\ ~DoubleStep0(viewer)
    /\ Up0(viewer).axis0 = 0

\* C12 as claimed: after an increment that took the double step, the
\* decrement leaves the slot at the value the increment skipped (the value
\* of the other slot).
C12_ReturnsToSkipped ==
    Viewing =>
        /\ DoubleStep0(viewer) => Down0(Up0(viewer)).axis0 = viewer.axis1
        /\ DoubleStep1(viewer) => Down1(Up1(viewer)).axis1 = viewer.axis0

\* C12 amended: after an increment that took the double step, the decrement
\* takes the double step back over the same value and leaves the slot at its
\* original value.
C12_ReturnsToOriginal ==
    Viewing =>
        /\ DoubleStep0(viewer) => Down0(Up0(viewer)).axis0 = viewer.axis0
        /\ DoubleStep1(viewer) => Down1(Up1(viewer)).axis1 = viewer.axis1

\* three dimensions, slot 1 right below slot 0: its increment skips slot 0
C12_Witness ==
    /\ Viewing /\ ndims(viewer.data[1]) = 3
    /\ DoubleStep1(viewer)
    /\ Up1(viewer).axis1 # viewer.axis1
    /\ Up1(viewer).axis1 # viewer.axis0
    /\ Down1(Up1(viewer)).axis1 = viewer.axis1

\* C13 as claimed: after each of the four axis-cycling operations both
\* scroll offsets are 0.
C13_ScrollReset ==
    Viewing =>
        \A w \in {Up0(viewer), Up1(viewer), Down0(viewer), Down1(viewer)} :
            w.row = 0 /\ w.col = 0

\* the slice of v as it is laid out for the grid
Slice(v) == oriented(v, read_slice_2d(v.data[1], slices_of(v)).arr)

\* C14: no axis-cycling operation changes fixed_index, and cycling a slot
\* away and back gives the axis pair and the slice there were before.
C14_FixedIndexKept ==
    Viewing =>
        /\ \A w \in {Up0(viewer), Up1(viewer), Down0(viewer), Down1(viewer)} :
              w.active_index = viewer.active_index
        /\ ndims(viewer.data[1]) >= 2 =>
              \A w \in {Down0(Up0(viewer)), Down1(Up1(viewer)),
                        Up0(Down0(viewer)), Up1(Down1(viewer))} :
                  /\ w.active_index = viewer.active_index
                  /\ w.axis0 = viewer.axis0 /\ w.axis1 = viewer.axis1
                  /\ read_slice_2d(w.data[1], slices_of(w)).ok
                  /\ Slice(w) = Slice(viewer)

\* three dimensions, the axes cycled, and the axis that is now free was
\* pinned at an index other than 0
C14_Witness ==
    /\ Viewing /\ ndims(viewer.data[1]) = 3
    /\ viewer.axis0 # 2
    /\ \E k \in 0..2 :
          /\ k \in {viewer.axis0, viewer.axis1}
          /\ viewer.active_index[k + 1] # 0
    /\ Slice(Up0(viewer)) # Slice(viewer)

RECURSIVE NextAxisTimes(_, _, _)
\* the command NextAxis(i), k times
NextAxisTimes(v, i, k) ==
    IF k = 0 THEN v
    ELSE NextAxisTimes(initialize_state(increment_index(v, i)), i, k - 1)

C16_OutOfRangeNoOp ==
    Viewing =>
        \A i \in AxisKeys : i >= ndims(viewer.data[1]) =>
            /\ increment_index(viewer, i) = viewer
            /\ decrement_index(viewer, i) = viewer
            /\ initialize_state(increment_index(viewer, i)) = viewer
            /\ initialize_state(decrement_index(viewer, i)) = viewer

\* two dimensions, scrolled, an index above 0: the keys of the axes 2..8 are
\* out of range
C16_Witness ==
    /\ Viewing /\ ndims(viewer.data[1]) = 2
    /\ viewer.col = 1
    /\ viewer.state = <<1>>
    /\ decrement_index(viewer, 2) = viewer

\* the rows of the grid shown: the labels of the row axis and Total
row_count(v) == Len(rows(v))

\* C17 as claimed: the selected row, when there is one, is below row_count.
C17_SelectedInRange ==
    (Viewing /\ viewer.state # <<>>) => viewer.state[1] < row_count(viewer)

\* C18 as claimed: each scroll offset is below the extent of its free axis.
C18_ScrollInRange ==
    Viewing =>
        /\ viewer.col < Len(viewer.data[1].set_data[viewer.axis0 + 1])
        /\ viewer.row < Len(viewer.data[1].set_data[viewer.axis1 + 1])

-----------------------------------------------------------------------------
(* The progress counters of the scan (SpecScan): the completed count is    *)
(* the length of the collection, the total is ndatasets                    *)

\* C19 as claimed: in a step within one scan (the task has drained the
\* collection and no new scan starts) neither counter decreases.
C19_CountersMonotone ==
    [][(task # 0 /\ task' = task /\ tasks[task].pc \notin {"none", "spawned"})
          => (Len(datasets') >= Len(datasets) /\ ndatasets' >= ndatasets)]_vars

\* C20 as claimed: after a scan that was not cancelled has ended, the total
\* is the number of tables discovered, whatever the number that opened.
C20_TotalIsDiscovered ==
    (task # 0 /\ tasks[task].pc = "finished" /\ tasks[task].seen = -1) =>
        /\ ndatasets = Len(GroupNames(store.members, 1))
        /\ Len(datasets) <= ndatasets

-----------------------------------------------------------------------------
(* The scan seen by a reader (SpecScan) *)

\* C21: while a scan is in its loop over the tables (before the first open
\* and until the last check) the total is the number of tables discovered.
C21_TotalBeforeFirstOpen ==
    \A t \in 1..MaxScans :
        tasks[t].pc \in {"loop", "opening", "check"} =>
            /\ tasks[t].names = GroupNames(store.members, 1)
            /\ ndatasets = Len(tasks[t].names)

\* the second scan is about to open its first table, and the total it found
\* in the counter was the lower count the first scan had left
C21_Witness ==
    /\ task = 2 /\ tasks[2].pc = "opening" /\ tasks[2].i = 1
    /\ tasks[1].pc = "finished" /\ tasks[1].count < Len(tasks[2].names)
    /\ ndatasets = Len(tasks[2].names)

IsPrefix(p, q) == Len(p) <= Len(q) /\ SubSeq(q, 1, Len(p)) = p

\* C22: the collection is always a prefix of the tables that open, in
\* discovery order, and a step within one scan leaves it as it is or appends
\* one entry at its end, so what a reader saw is a prefix of what it sees
\* later in that scan.
C22_AppendOnly ==
    /\ [](IsPrefix(datasets, Indexable))
    /\ [][(task # 0 /\ task' = task /\ tasks[task].pc \notin {"none", "spawned"})
            => /\ IsPrefix(datasets, datasets')
               /\ Len(datasets') <= Len(datasets) + 1]_vars

\* a tick is about to read a collection of two entries while the scan that
\* appended them goes on
C22_Witness ==
    /\ ui = "drain" /\ action_rx # <<>> /\ Head(action_rx) = "Tick"
    /\ task # 0 /\ tasks[task].pc = "opening"
    /\ Len(datasets) = 2

-----------------------------------------------------------------------------
(* Failing projections and the totals (SpecView) *)

\* C23 as claimed: a projection that fails does not end the process.
C23_FailureIsLocal ==
    (mode = "Viewer" /\ Viewer_data(viewer).kind = "err") => ui # "panicked"

\* C24 as claimed: no table is viewed with equal free axes (a table of fewer
\* than two dimensions is not viewed at all).
C24_FlatRejected ==
    mode = "Viewer" =>
        /\ ndims(viewer.data[1]) >= 2
        /\ viewer.axis0 # viewer.axis1

\* the sum of body row i of the slice of v, all columns
RowTotal(v, i) == SeqSum(Transpose(Slice(v))[i])

\* the sum of body column j of the slice of v
ColumnTotal(v, j) == SeqSum(Slice(v)[j])

\* C29: at every column offset at which a grid is made, each body row starts
\* with the total of the whole row, the last row holds the grand total and
\* the totals of the columns shown, the headers start with Total and the row
\* labels end with Total; a grid that was drawn is that grid.
C29_TotalsStay ==
    /\ (Viewing /\ Projects(viewer)) =>
          LET g == GridOf(viewer)
              a == Slice(viewer)
              nr == Len(a[1])
              nc == Len(a)
          IN  /\ Len(g) = nr + 1
              /\ \A i \in 1..nr :
                    /\ Len(g[i]) = (nc - viewer.col) + 1
                    /\ g[i][1] = FormatOf(viewer, RowTotal(viewer, i))
              /\ Len(g[nr + 1]) = (nc - viewer.col) + 1
              /\ g[nr + 1][1] = FormatOf(viewer, SliceSum(viewer))
              /\ \A j \in (viewer.col + 1)..nc :
                    g[nr + 1][j - viewer.col + 1]
                        = FormatOf(viewer, ColumnTotal(viewer, j))
    /\ (Viewing /\ items # <<>>) =>
          /\ items = GridOf(viewer)
          /\ columns(viewer)[1] = "Total"
          /\ rows(viewer)[Len(rows(viewer))] = "Total"
          /\ Len(rows(viewer)) = Len(items)
          /\ Len(columns(viewer)) = Len(items[1])

\* scrolled to the end of a slice of more than one column: only the totals
\* are left
C29_Witness ==
    /\ Viewing /\ items # <<>>
    /\ viewer.col = viewer.ncol /\ viewer.col > 1
    /\ Len(items) > 2
    /\ Len(items[1]) = 1

-----------------------------------------------------------------------------
(* The labels of the tables in the catalog (SpecScan) *)

\* C30 as claimed: every entry of the collection has as many labels in each
\* dimension as the extent of that dimension (a table whose labels differ
\* fails to open).
C30_LabelsMatchShape ==
    \A k \in 1..Len(datasets) :
        LET d == DataOf(store, datasets[k])
        IN  \A i \in 1..ndims(d) : Len(d.set_data[i]) = d.shape[i]

-----------------------------------------------------------------------------
(* Properties of the selection overlay (SpecSelect, SpecView) *)

\* C25: toggle_all replaces the mark set of a dimension by its complement
\* within [0, size), for every dimension and for the current one through
\* Select::toggle_all, and applying it twice restores the original set.
C25_ToggleAllComplements ==
    /\ \A k \in 1..Len(select.active_sets_state) :
          LET l == select.active_sets_state[k]
              t == SL_toggle_all(l)
          IN  /\ t.marked = (0..(Len(l.items) - 1)) \ l.marked
              /\ SL_toggle_all(t) = l
    /\ ~index_panics(select) =>
          LET l == select.active_sets_state[select.current_set + 1]
              w == Select_toggle_all(select)
          IN  /\ w.active_sets_state[select.current_set + 1].marked
                    = (0..(Len(l.items) - 1)) \ l.marked
              /\ Select_toggle_all(w) = select

\* the current dimension has size 4 and the marks {0,2}: toggle_all gives
\* {1,3}
C25_Witness ==
    /\ ui = "await"
    /\ ~index_panics(select)
    /\ LET l == select.active_sets_state[select.current_set + 1]
       IN  /\ Len(l.items) = 4
           /\ l.marked = {0, 2}
           /\ Select_toggle_all(select)
                 .active_sets_state[select.current_set + 1].marked = {1, 3}

\* C26: selected() returns the marked indices in strictly ascending order
\* and never an empty list; with no mark it marks index 0, returns <<0>> and
\* leaves 0 marked, and with marks it changes nothing.
C26_SelectedAscendingNonEmpty ==
    \A k \in 1..Len(select.active_sets_state) :
        LET l == select.active_sets_state[k]
            r == SL_selected(l)
        IN  /\ r.out # <<>>
            /\ \A i \in 1..(Len(r.out) - 1) : r.out[i] < r.out[i + 1]
            /\ { r.out[i] : i \in 1..Len(r.out) } = r.list.marked
            /\ l.marked # {} => r.list = l
            /\ l.marked = {} =>
                  /\ r.out = <<0>>
                  /\ r.list = [l EXCEPT !.marked = {0}]

\* one dimension holds no mark and another holds several, the last index
\* among them
C26_Witness ==
    /\ \E k \in 1..Len(select.active_sets_state) :
          /\ select.active_sets_state[k].marked = {}
          /\ SL_selected(select.active_sets_state[k]).out = <<0>>
    /\ \E k \in 1..Len(select.active_sets_state) :
          LET l == select.active_sets_state[k]
          IN  /\ Cardinality(l.marked) >= 2
              /\ Len(l.items) - 1 \in l.marked
              /\ Len(SL_selected(l).out) = Cardinality(l.marked)

\* C27: an operation of the overlay leaves the lists of every dimension but
\* the current one as they were, and switching the current dimension to the
\* left or to the right changes no list at all.
C27_OtherDimensionsKept ==
    /\ ~index_panics(select) =>
          \A w \in { Select_toggle(select), Select_toggle_all(select),
                     Select_next_element(select),
                     Select_previous_element(select) } :
              /\ Len(w.active_sets_state) = Len(select.active_sets_state)
              /\ w.current_set = select.current_set
              /\ \A k \in 1..Len(select.active_sets_state) :
                    k # select.current_set + 1 =>
                        w.active_sets_state[k] = select.active_sets_state[k]
    /\ \A w \in { Select_next_set(select), Select_previous_set(select) } :
          w.active_sets_state = select.active_sets_state

\* the current dimension is not the first, both it and another dimension
\* hold marks, and toggle and toggle_all change the current one's marks
C27_Witness ==
    /\ ui = "await"
    /\ ~index_panics(select)
    /\ select.current_set >= 1
    /\ select.active_sets_state[1].marked # {}
    /\ select.active_sets_state[select.current_set + 1].marked # {}
    /\ Select_toggle(select) # select
    /\ Select_toggle_all(select) # select
    /\ Select_next_set(select).current_set # select.current_set

\* C28: while a table is open, the overlay has every index of the first
\* dimension marked.
C28_FirstDimensionMarked ==
    Viewing =>
        /\ Len(select.active_sets_state) >= 1
        /\ select.active_sets_state[1].marked
              = 0..(Len(select.active_sets_state[1].items) - 1)

-----------------------------------------------------------------------------
(* The axis step, the augmented grid and its labels (SpecView) *)

\* C31: an increment of a slot holding a sets it to (a + 1) mod ndims when
\* that differs from the other slot and to (a + 2) mod ndims when it does
\* not; a decrement sets it to (a - 1) mod ndims, or (a - 2) mod ndims on
\* collision; the other slot is unchanged, by the operation and by the
\* command made of it.
C31_AxisStep ==
    Viewing =>
        LET n  == ndims(viewer.data[1])
            a0 == viewer.axis0
            a1 == viewer.axis1
            up(a, o)   == IF (a + 1) % n # o THEN (a + 1) % n ELSE (a + 2) % n
            down(a, o) == IF (a + n - 1) % n # o THEN (a + n - 1) % n
                          ELSE (a + 2 * n - 2) % n
        IN  /\ \A w \in {increment_axis0(viewer), Up0(viewer)} :
                  w.axis0 = up(a0, a1) /\ w.axis1 = a1
            /\ \A w \in {increment_axis1(viewer), Up1(viewer)} :
                  w.axis1 = up(a1, a0) /\ w.axis0 = a0
            /\ \A w \in {decrement_axis0(viewer), Down0(viewer)} :
                  w.axis0 = down(a0, a1) /\ w.axis1 = a1
            /\ \A w \in {decrement_axis1(viewer), Down1(viewer)} :
                  w.axis1 = down(a1, a0) /\ w.axis0 = a0

\* three dimensions with the axes (2, 0): the increment of slot 0 wraps onto
\* slot 1 and goes on to 1, the decrement of slot 1 wraps onto slot 0 and
\* goes on to 1
C31_Witness ==
    /\ Viewing /\ ndims(viewer.data[1]) = 3
    /\ viewer.axis0 = 2 /\ viewer.axis1 = 0
    /\ Up0(viewer).axis0 = 1
    /\ Down1(viewer).axis1 = 1
    /\ viewer.active_index # <<0, 0, 0>>

\* the cell of the table of v at row i and column j of the body: axis1 is at
\* i - 1, axis0 at j - 1, every other axis at its fixed index
Cell(v, i, j) ==
    Value(v.data[1], [k \in 1..ndims(v.data[1]) |->
        IF k - 1 = v.axis1 THEN i - 1
        ELSE IF k - 1 = v.axis0 THEN j - 1
        ELSE v.active_index[k]])

\* C32: at column offset 0 the grid has rows + 1 rows of cols + 1 cells; the
\* first cell of body row i is the sum of the cells of that row, cell j of
\* the last row the sum of body column j, the first cell of the last row the
\* sum of the column sums, and the other cells are the values of the table.
C32_AugmentedGrid ==
    (Viewing /\ Projects(viewer) /\ viewer.col = 0) =>
        LET d == viewer.data[1]
            R == d.shape[viewer.axis1 + 1]
            C == d.shape[viewer.axis0 + 1]
            g == vov(Slice(viewer), 0)
        IN  /\ Len(g) = R + 1
            /\ \A i \in 1..(R + 1) : Len(g[i]) = C + 1
            /\ \A i \in 1..R :
                  /\ g[i][1] = SeqSum([j \in 1..C |-> Cell(viewer, i, j)])
                  /\ \A j \in 1..C : g[i][j + 1] = Cell(viewer, i, j)
            /\ \A j \in 1..C :
                  g[R + 1][j + 1] = SeqSum([i \in 1..R |-> Cell(viewer, i, j)])
            /\ g[R + 1][1] = SeqSum([j \in 1..C |-> g[R + 1][j + 1]])
            /\ GridOf(viewer) = formatted(viewer, g)

\* three dimensions, two rows and two columns or more, the slice transposed,
\* and row totals, column totals and the grand total that are not 0
C32_Witness ==
    /\ Viewing /\ Projects(viewer) /\ viewer.col = 0
    /\ ndims(viewer.data[1]) = 3
    /\ viewer.axis1 > viewer.axis0
    /\ viewer.nrow >= 2 /\ viewer.ncol >= 2
    /\ LET g == vov(Slice(viewer), 0)
       IN  /\ g[1][1] # 0 /\ g[1][1] # g[1][2]
           /\ g[Len(g)][2] # 0
           /\ g[Len(g)][1] # 0

C35_FreeIndexIgnored ==
    (Viewing /\ ndims(viewer.data[1]) >= 2) =>
        LET d == viewer.data[1]
        IN  /\ \A x \in 0..(d.shape[viewer.axis0 + 1] - 1) :
               \A y \in 0..(d.shape[viewer.axis1 + 1] - 1) :
                  Viewer_data([viewer EXCEPT
                                  !.active_index[viewer.axis0 + 1] = x,
                                  !.active_index[viewer.axis1 + 1] = y])
                      = Viewer_data(viewer)
            /\ \A a \in {viewer.axis0, viewer.axis1} :
                  LET up   == initialize_state(increment_index(viewer, a))
                      down == initialize_state(decrement_index(viewer, a))
                  IN  /\ up.active_index[a + 1]
                            = (viewer.active_index[a + 1] + 1) % d.shape[a + 1]
                      /\ down.active_index[a + 1]
                            = (viewer.active_index[a + 1] + d.shape[a + 1] - 1)
                                  % d.shape[a + 1]
                      /\ Viewer_data(up) = Viewer_data(viewer)
                      /\ Viewer_data(down) = Viewer_data(viewer)

\* a drawn grid of three dimensions whose free axes both have two indices
\* and fixed indices other than 0
C35_Witness ==
    /\ Viewing /\ items # <<>>
    /\ ndims(viewer.data[1]) = 3
    /\ viewer.nrow = 2 /\ viewer.ncol = 2
    /\ viewer.active_index[viewer.axis0 + 1] = 1
    /\ viewer.active_index[viewer.axis1 + 1] = 1

\* C36 as claimed: the step that opens a table gives the free axes
\* (ndims - 1, 0), every fixed index 0 and both scroll offsets 0.
C36_OpenIsFresh ==
    [][(mode = "Picker" /\ mode' = "Viewer") =>
          /\ viewer'.axis0 = ndims(viewer'.data[1]) - 1
          /\ viewer'.axis1 = 0
          /\ viewer'.active_index = [i \in 1..ndims(viewer'.data[1]) |-> 0]
          /\ viewer'.row = 0
          /\ viewer'.col = 0]_vars

-----------------------------------------------------------------------------
(* Cancellation at the granularity of one table, and the counters a reader *)
(* sees (SpecScan)                                                         *)

\* C34 as claimed: once cancellation has been requested, no open of a table
\* begins (only an open already in progress goes on).
C34_NoOpenAfterRequest ==
    [][\A t \in 1..MaxScans :
          tokens[t] => ~(tasks[t].pc = "loop" /\ tasks'[t].pc = "opening")]_vars

\* C34 amended: after the request at most one entry is appended, and the
\* first check of the flag that follows the request ends the loop: no open
\* begins after it.
C34_AtMostOneAfterRequest ==
    /\ [](\A t \in 1..MaxScans :
             tasks[t].seen >= 0 => tasks[t].count <= tasks[t].seen + 1)
    /\ [][\A t \in 1..MaxScans :
             /\ (tokens[t] /\ tasks[t].pc = "check") =>
                    tasks'[t].pc \in {"check", "epilogue"}
             /\ tasks[t].pc \in {"epilogue", "send", "clear", "return",
                                 "finished"} =>
                    tasks'[t].pc \in {"epilogue", "send", "clear", "return",
                                      "finished"}]_vars

\* the request came when 1 table was indexed; the scan appended one more,
\* saw the flag at its check and left the loop with tables still to open
C34_Witness ==
    /\ tasks[1].pc = "epilogue"
    /\ tokens[1]
    /\ tasks[1].seen = 1 /\ tasks[1].count = 2
    /\ tasks[1].i < Len(tasks[1].names)

\* C40: the collection never holds more entries than the total count, in
\* any state and when the count is read one step after the length.
C40_LenAtMostTotal ==
    /\ [](Len(datasets) <= ndatasets)
    /\ [][Len(datasets) <= ndatasets']_vars

\* the second scan has not drained yet: the collection holds what the first
\* scan left, as many entries as the count, fewer than the tables of the file
C40_Witness ==
    /\ task = 2 /\ tasks[2].pc = "spawned"
    /\ loading_status = FALSE
    /\ Len(datasets) = ndatasets /\ ndatasets > 0
    /\ ndatasets < Len(GroupNames(store.members, 1))

-----------------------------------------------------------------------------
(* The current dimension of the overlay (SpecSelect) *)

\* C39 as claimed: current_set is below the number of dimensions of the
\* table whose lists the overlay holds.
C39_CurrentSetInRange ==
    select.current_set < Len(select.active_sets_state)

-----------------------------------------------------------------------------
(* The selection of a table in the catalog view (SpecPick) *)

\* C37 as claimed: when a selection is submitted, the selected row is below
\* the number of filtered entries.
C37_CursorInRange ==
    (ui = "drain" /\ action_rx # <<>> /\ Head(action_rx) = "SubmitSelection"
        /\ picker.state # <<>>) =>
        picker.state[1] < Len(picker.filtered_items)

\* C38 as claimed: when the application reads SwitchModeToViewer(i), the
\* collection has an entry at i.
C38_IndexRefersToEntry ==
    \A i \in 0..(Len(GroupNames(store.members, 1)) - 1) :
        (ui = "drain" /\ action_rx # <<>>
            /\ Head(action_rx) = SwitchModeToViewer(i)) =>
            i < Len(datasets)
====
